---- MODULE Spec2Model ----
(***************************************************************************)
(* Model of the look-ahead music scheduler of src/utils/audioUtils.ts and  *)
(* of the click hit-tester of CastleScene (src/unnamed/part_000).          *)
(*                                                                         *)
(* Time.  All times (AudioContext.currentTime, nextNoteTime, timer due     *)
(* times) are counted in units of 1/TEMPO second = 1/140 s.  In that unit  *)
(* 0.1 s is 14 units and one beat (60/140 s) is 60 units, so every time    *)
(* the code computes from 0.1 and duration * SECONDS_PER_BEAT is an exact  *)
(* integer: the model computes in exact arithmetic where the code rounds   *)
(* to IEEE doubles.                                                        *)
(*                                                                         *)
(* Durations of score entries are written in quarter beats (1 beat = 4),   *)
(* the finest subdivision either score uses.                               *)
(***************************************************************************)
EXTENDS Integers, Sequences, FiniteSets

\* ---------------------------------------------------------------- bounds

\* The audio clock advances in steps of Quantum units (7 units = 0.05 s).
Quantum == 7
\* Horizon of Spec: the audio clock stops advancing at MaxClock (1.5 s).
MaxClock == 210
\* Horizon of LongSpec: more than one full cycle of either score.
MaxClockLong == 1120
\* Horizon of CycleSpec: one full cycle of the bell score and a little more.
MaxClockCycle == 980
\* A timer callback runs at most MaxLate units after its due time (0.2 s).
MaxLate == 28
\* Horizon of SwitchSpec: long enough for the castle score to pass the
\* length of the bell score (2.5 s).
MaxClockSwitch == 350
MaxFramesScene == 1
MaxFrames == 5
\* Horizon of ParticleSpec in frames: longer than a particle lives.
MaxFramesParticles == 56
\* In ParticleSpec the lights are switched, and the random number of the
\* exhaust is free, during the first MaxBusyFrames frames.
MaxBusyFrames == 4
\* Horizon of DrawSpec in frames.
MaxFramesDraw == 3
\* Horizon of BoundsSpec in frames.
MaxFramesBounds == 2
\* Horizon of CarSpec: the diamond car turns by at most MaxFramesCar steps
\* of 0.005.
MaxFramesCar == 3
MaxPerLoop == 2
RandGrid == 4
MaxSeed == 10

\* ------------------------------------------------------- program constants

NULL == "null"
\* The null of a timer handle (number | null).
NullHandle == [cb |-> "null", due |-> 0]

TEMPO == 140
\* The model's time unit is 1/TEMPO s.
UnitsPerSecond == TEMPO
\* SECONDS_PER_BEAT = 60 / TEMPO seconds, in units.
SECONDS_PER_BEAT == (60 * UnitsPerSecond) \div TEMPO
\* LOOKAHEAD = 0.1: the timer interval, LOOKAHEAD * 1000 ms.
LOOKAHEAD == UnitsPerSecond \div 10
SCHEDULE_AHEAD_TIME_double == UnitsPerSecond \div 5

\* SCHEDULE_AHEAD_TIME = 0.1 s.
SCHEDULE_AHEAD_TIME == UnitsPerSecond \div 10
\* The 0.1 of `nextNoteTime = ctx.currentTime + 0.1`.
StartDelay == UnitsPerSecond \div 10

N(note, quarters) == [note |-> note, duration |-> quarters]

JINGLE_BELLS ==
    << N("E5", 4), N("E5", 4), N("E5", 8), N("E5", 4), N("E5", 4), N("E5", 8),
       N("E5", 4), N("G5", 4), N("C5", 6), N("D5", 2), N("E5", 16) >>

DISNEY_THEME ==
    << N("C4", 1), N("E4", 1), N("G4", 1), N("C5", 1),
       N("E5", 1), N("G5", 1), N("C6", 2), N(NULL, 2),
       N("G5", 4), N("E5", 2), N("F5", 2), N("G5", 8),
       N("A5", 2), N("G5", 2), N("F5", 2), N("E5", 2), N("D5", 8),
       N("E5", 2), N("F5", 2), N("G5", 4), N("C5", 4),
       N("A5", 6), N("G5", 2), N("C6", 8) >>

NoteSeconds_wholeBeats(quarters) == (quarters \div 4) * SECONDS_PER_BEAT

\* duration * SECONDS_PER_BEAT, for a duration in quarter beats.
NoteSeconds(quarters) == (quarters * SECONDS_PER_BEAT) \div 4

Score(type) == IF type = "bell" THEN JINGLE_BELLS ELSE DISNEY_THEME

\* ------------------------------------------------------------------ state

VARIABLES
    audioCtx,              \* NULL, or "ctx" once getCtx() has created it
    currentTime,           \* audioCtx.currentTime
    musicScheduler,        \* NullHandle or the handle of the tree timer
    castleMusicScheduler,  \* NullHandle or the handle of the castle timer
    nextNoteTime,
    scoreIndex,
    timers,                \* the host's pending timeouts: [cb, due]
    \* observation of the run (not program state)
    startedAt,             \* currentTime at the latest start that took effect
    count,                 \* score entries processed since that start
    handed,                \* notes handed to the synthesizer since that start
    lastStart,             \* start time of the latest entry processed, or -1
    processed,             \* the entries processed by the latest operation
    oscillators,           \* the oscillators started by the latest operation
    lastCall               \* the latest operation and what it found

audioVars ==
    << audioCtx, currentTime, musicScheduler, castleMusicScheduler,
       nextNoteTime, scoreIndex, timers, startedAt, count, handed, lastStart,
       processed, oscillators, lastCall >>

Running ==
    IF musicScheduler # NullHandle THEN "tree"
    ELSE IF castleMusicScheduler # NullHandle THEN "castle" ELSE "none"

\* What lastCall records of an operation: its name and argument, which
\* scheduler ran and which index was current when it was called, and for a
\* timer callback how long after its due time it ran; `error` tells what
\* became of an error raised in it: "none", "caught" or "thrown" (to the
\* caller).
Call(op, arg, late) ==
    [op |-> op, arg |-> arg, running |-> Running, index |-> scoreIndex,
     late |-> late, error |-> "none"]

AudioInit ==
    /\ audioCtx = NULL
    /\ currentTime = 0
    /\ musicScheduler = NullHandle
    /\ castleMusicScheduler = NullHandle
    /\ nextNoteTime = 0
    /\ scoreIndex = 0
    /\ timers = {}
    /\ startedAt = 0
    /\ count = 0
    /\ handed = 0
    /\ lastStart = -1
    /\ processed = << >>
    /\ oscillators = << >>
    /\ lastCall = [op |-> "init", arg |-> FALSE, running |-> "none",
                   index |-> 0, late |-> 0, error |-> "none"]

\* ------------------------------------------------------------ synthesizer

\* scheduleNote: the osc.start(time) calls it makes, none for a rest.  A bell
\* note starts one oscillator, an orchestra note two (osc2, then osc).  It
\* reads audioCtx as the running operation has left it.
scheduleNote(note, duration, time, type) ==
    IF audioCtx' = NULL THEN << >>
    ELSE IF note = NULL THEN << >>
    ELSE LET osc(wave) == [wave |-> wave, note |-> note, start |-> time,
                           stop |-> time + NoteSeconds(duration) + UnitsPerSecond,
                           at |-> currentTime]
         IN  IF type = "bell" THEN << osc("triangle") >>
             ELSE << osc("triangle"), osc("sine") >>

\* -------------------------------------------------------------- scheduler

NextIndex_wrapEarly(type, idx) == (idx + 1) % (Len(Score(type)) - 1)

\* scoreIndex = (scoreIndex + 1) % SCORE.length
NextIndex(type, idx) == (idx + 1) % Len(Score(type))

\* The while loop of treeScheduler / castleScheduler from cursor nnt and
\* index idx, k entries having been processed since the start: the cursor
\* and index it ends with, and the entries it processed, in order.
RECURSIVE SchedulerLoop(_, _, _, _, _, _)
SchedulerLoop(type, nnt, idx, k, done, oscs) ==
    IF nnt < currentTime + SCHEDULE_AHEAD_TIME
    THEN LET entry == Score(type)[idx + 1]
         IN  SchedulerLoop(
                 type,
                 nnt + NoteSeconds(entry.duration),
                 NextIndex(type, idx),
                 k + 1,
                 Append(done, [type |-> type, k |-> k, index |-> idx,
                               note |-> entry.note,
                               duration |-> entry.duration, time |-> nnt,
                               prev |-> IF done = << >> THEN lastStart'
                                        ELSE done[Len(done)].time,
                               at |-> currentTime]),
                 oscs \o scheduleNote(entry.note, entry.duration, nnt, type))
    ELSE [nextNoteTime |-> nnt, scoreIndex |-> idx, count |-> k,
          processed |-> done, oscillators |-> oscs]

\* window.setTimeout(cb, LOOKAHEAD * 1000): the handle of the new timer.
SetTimeout(cb) == [cb |-> cb, due |-> currentTime + LOOKAHEAD]

ClearTimeout_forgets(pending, handle) == pending

\* clearTimeout(handle)
ClearTimeout(pending, handle) == pending \ {handle}

\* The body of treeScheduler() / castleScheduler(), run from cursor nnt and
\* index idx with k entries processed and h notes handed since the start,
\* `pending` being the host's timers.  lastStart' is set by the caller to the
\* start time of the latest entry processed before this run.
Scheduler(type, nnt, idx, k, h, pending) ==
    IF audioCtx' = NULL
    THEN /\ UNCHANGED << musicScheduler, castleMusicScheduler >>
         /\ nextNoteTime' = nnt
         /\ scoreIndex' = idx
         /\ count' = k
         /\ handed' = h
         /\ processed' = << >>
         /\ oscillators' = << >>
         /\ timers' = pending
    ELSE LET r == SchedulerLoop(type, nnt, idx, k, << >>, << >>)
             t == SetTimeout(IF type = "bell" THEN "tree" ELSE "castle")
         IN  /\ nextNoteTime' = r.nextNoteTime
             /\ scoreIndex' = r.scoreIndex
             /\ count' = r.count
             /\ handed' = h + Cardinality({i \in 1..Len(r.processed) :
                                              r.processed[i].note # NULL})
             /\ processed' = r.processed
             /\ oscillators' = r.oscillators
             /\ timers' = pending \cup {t}
             /\ IF type = "bell"
                THEN musicScheduler' = t /\ UNCHANGED castleMusicScheduler
                ELSE castleMusicScheduler' = t /\ UNCHANGED musicScheduler

\* The start time of the latest entry processed up to now.
LatestStart ==
    IF processed = << >> THEN lastStart ELSE processed[Len(processed)].time

\* The host runs a due timer's callback: treeScheduler.
treeScheduler ==
    \E t \in timers :
        /\ t.cb = "tree"
        /\ currentTime >= t.due
        /\ UNCHANGED << audioCtx, currentTime, startedAt >>
        /\ lastCall' = Call("treeScheduler", FALSE, currentTime - t.due)
        /\ lastStart' = LatestStart
        /\ Scheduler("bell", nextNoteTime, scoreIndex, count, handed,
                     timers \ {t})

\* The host runs a due timer's callback: castleScheduler.
castleScheduler ==
    \E t \in timers :
        /\ t.cb = "castle"
        /\ currentTime >= t.due
        /\ UNCHANGED << audioCtx, currentTime, startedAt >>
        /\ lastCall' = Call("castleScheduler", FALSE, currentTime - t.due)
        /\ lastStart' = LatestStart
        /\ Scheduler("orchestra", nextNoteTime, scoreIndex, count, handed,
                     timers \ {t})

\* --------------------------------------------------------------- toggles

\* getCtx() raises an error: there is no context yet and the host's
\* AudioContext constructor fails (ok is the host's answer).
Throws(ok) == audioCtx = NULL /\ ~ok

\* getCtx(): creates the context on first use.
getCtx(ok) == audioCtx' = IF Throws(ok) THEN audioCtx ELSE "ctx"

NoNotes == processed' = << >> /\ oscillators' = << >> /\ lastStart' = LatestStart

\* const ctx = getCtx() outside any try block: the error leaves the
\* operation before it has done anything.
Uncaught(op, arg) ==
    /\ lastCall' = [Call(op, arg, 0) EXCEPT !.error = "thrown"]
    /\ NoNotes
    /\ UNCHANGED << audioCtx, currentTime, musicScheduler,
                    castleMusicScheduler, nextNoteTime, scoreIndex, timers,
                    startedAt, count, handed >>

CanStartTree_ownOnly == musicScheduler = NullHandle

\* if (musicScheduler === null && castleMusicScheduler === null)
CanStartTree == musicScheduler = NullHandle /\ castleMusicScheduler = NullHandle

CanStartCastle_ownOnly == castleMusicScheduler = NullHandle

\* if (castleMusicScheduler === null && musicScheduler === null)
CanStartCastle == castleMusicScheduler = NullHandle /\ musicScheduler = NullHandle

StartCursor_now == currentTime

\* nextNoteTime = ctx.currentTime + 0.1
StartCursor == currentTime + StartDelay

StartIndex_resume == scoreIndex

\* scoreIndex = 0
StartIndex == 0

TreeStop_stopsAll ==
    /\ timers' = {}
    /\ musicScheduler' = NullHandle
    /\ castleMusicScheduler' = NullHandle

\* The stop branch of toggleChristmasMusic.
TreeStop ==
    /\ UNCHANGED castleMusicScheduler
    /\ IF musicScheduler # NullHandle
       THEN /\ timers' = ClearTimeout(timers, musicScheduler)
            /\ musicScheduler' = NullHandle
       ELSE UNCHANGED << timers, musicScheduler >>

\* The stop branch of toggleDisneyMusic.
CastleStop ==
    /\ UNCHANGED musicScheduler
    /\ IF castleMusicScheduler # NullHandle
       THEN /\ timers' = ClearTimeout(timers, castleMusicScheduler)
            /\ castleMusicScheduler' = NullHandle
       ELSE UNCHANGED << timers, castleMusicScheduler >>

toggleChristmasMusic(shouldPlay, ok) ==
    IF Throws(ok) THEN Uncaught("toggleChristmasMusic", shouldPlay)
    ELSE
    /\ getCtx(ok)
    /\ UNCHANGED currentTime
    /\ lastCall' = Call("toggleChristmasMusic", shouldPlay, 0)
    /\ IF shouldPlay
       THEN IF CanStartTree
            THEN /\ startedAt' = currentTime
                 /\ lastStart' = -1
                 /\ Scheduler("bell", StartCursor, StartIndex, 0, 0, timers)
            ELSE /\ NoNotes
                 /\ UNCHANGED << musicScheduler, castleMusicScheduler,
                                 nextNoteTime, scoreIndex, timers, startedAt,
                                 count, handed >>
       ELSE /\ NoNotes
            /\ UNCHANGED << nextNoteTime, scoreIndex, startedAt, count,
                            handed >>
            /\ TreeStop

toggleDisneyMusic(shouldPlay, ok) ==
    IF Throws(ok) THEN Uncaught("toggleDisneyMusic", shouldPlay)
    ELSE
    /\ getCtx(ok)
    /\ UNCHANGED currentTime
    /\ lastCall' = Call("toggleDisneyMusic", shouldPlay, 0)
    /\ IF shouldPlay
       THEN IF CanStartCastle
            THEN /\ startedAt' = currentTime
                 /\ lastStart' = -1
                 /\ Scheduler("orchestra", StartCursor, StartIndex, 0, 0,
                              timers)
            ELSE /\ NoNotes
                 /\ UNCHANGED << musicScheduler, castleMusicScheduler,
                                 nextNoteTime, scoreIndex, timers, startedAt,
                                 count, handed >>
       ELSE /\ NoNotes
            /\ UNCHANGED << nextNoteTime, scoreIndex, startedAt, count,
                            handed >>
            /\ CastleStop

\* ------------------------------------------------------------------ time

\* The audio clock advances by d units, up to `horizon`; a due timer is run
\* at most `late` units after its due time.  The clock exists once the
\* context does.
Advance(d, horizon, late) ==
    /\ audioCtx # NULL
    /\ currentTime + d <= horizon
    /\ \A t \in timers : currentTime + d <= t.due + late
    /\ currentTime' = currentTime + d
    /\ lastCall' = Call("advance", FALSE, 0)
    /\ NoNotes
    /\ UNCHANGED << audioCtx, musicScheduler, castleMusicScheduler,
                    nextNoteTime, scoreIndex, timers, startedAt, count,
                    handed >>

\* ---------------------------------------------------------- engine sound

\* playEngineSound(): getCtx(), then osc1.start(t), osc2.start(t) and
\* osc1.stop(t + 2), osc2.stop(t + 2) with t = ctx.currentTime.
EngineOscillators ==
    LET osc(wave) == [wave |-> wave, note |-> "engine", start |-> currentTime,
                      stop |-> currentTime + 2 * UnitsPerSecond,
                      at |-> currentTime]
    IN  << osc("sawtooth"), osc("square") >>

RECURSIVE Repeat(_, _)
Repeat(seq, n) == IF n = 0 THEN << >> ELSE seq \o Repeat(seq, n - 1)

\* playFireworkSound(): getCtx(), then noise.start(t) with t =
\* ctx.currentTime; the noise source has no stop time.
FireworkSources ==
    << [wave |-> "noise", note |-> "firework", start |-> currentTime,
        stop |-> -1, at |-> currentTime] >>

\* What a sound effect's try block leaves behind: the sources it started,
\* or nothing when getCtx() raised and the catch block logged the error.
Caught(ok, sources) == IF Throws(ok) THEN << >> ELSE sources

\* n calls of playEngineSound() in one event dispatch; the schedulers are
\* not touched.
playEngineSound(n, ok) ==
    /\ IF n > 0 THEN getCtx(ok) ELSE UNCHANGED audioCtx
    /\ oscillators' = Caught(ok, Repeat(EngineOscillators, n))
    /\ processed' = << >>
    /\ lastStart' = LatestStart
    /\ UNCHANGED << currentTime, musicScheduler, castleMusicScheduler,
                    nextNoteTime, scoreIndex, timers, startedAt, count,
                    handed >>

\* ------------------------------------------------------ number arithmetic
\*
\* The scene computes with binary floating-point numbers: every +, - and *
\* rounds its exact result to the nearest number of the format, ties to the
\* even significand.  The format here has a significand of SigBits bits
\* (the program's numbers have 53) and no number finer than 2^-FracBits; a
\* number is held as the integer count of units of 2^-FracBits.

SigBits == 8
FracBits == 10

RECURSIVE Pow2(_)
Pow2(k) == IF k = 0 THEN 1 ELSE 2 * Pow2(k - 1)

\* The number 1 in units.
One == Pow2(FracBits)

RECURSIVE BitLen(_)
BitLen(n) == IF n = 0 THEN 0 ELSE 1 + BitLen(n \div 2)

Abs(v) == IF v < 0 THEN -v ELSE v

\* The step between neighbouring numbers of the format at magnitude m.
Ulp(m) == IF BitLen(m) > SigBits THEN Pow2(BitLen(m) - SigBits) ELSE 1

\* m >= 0 rounded to the nearest multiple of q, ties to the even multiple.
RoundTo(m, q) ==
    LET k == m \div q
        r == m % q
    IN  IF 2 * r < q THEN k * q
        ELSE IF 2 * r > q THEN (k + 1) * q
        ELSE IF k % 2 = 0 THEN k * q ELSE (k + 1) * q

\* m >= 0 rounded to SigBits significant bits and to a multiple of minq.
RoundSig(m, minq) == RoundTo(m, IF Ulp(m) > minq THEN Ulp(m) ELSE minq)

Fl_exact(v) == v

\* The exact value v rounded to the format.
Fl(v) == IF v < 0 THEN -RoundSig(-v, 1) ELSE RoundSig(v, 1)

FAdd(a, b) == Fl(a + b)

FSub(a, b) == Fl(a - b)

\* a * b: the exact product counts units of 2^-(2 FracBits).
FMul(a, b) ==
    LET p == a * b
        r == RoundSig(Abs(p), One) \div One
    IN  IF p < 0 THEN -r ELSE r

\* The literal num / den (0.05, 0.1, 1.3, ...) as the format holds it.
GuardBits == 8
Literal(num, den) ==
    LET g == Pow2(GuardBits)
    IN  RoundSig((num * One * g) \div den, g) \div g

\* An integer literal, or an integer value such as a door-open target.
FromInt(n) == Fl(n * One)

\* ---------------------------------------------------- car geometry generator
\*
\* The generator's numbers are held exactly, in thousandths (Milli units);
\* the roundings of its double arithmetic are not modelled.  Every loop of
\* the generator is followed for its first MaxPerLoop iterations.

Milli == 10 ^ 3

\* Math.PI
PI == 3142

MulAt(a, b, one) == (a * b) \div one

\* Math.sin(a) and Math.cos(a) by their Taylor polynomials, a and the result
\* counted in units of 1 / one; sin(0) = 0 and cos(0) = 1 exactly.
SinAt(a, one) ==
    LET a2 == MulAt(a, a, one)
        a3 == MulAt(a2, a, one)
        a5 == MulAt(a3, a2, one)
        a7 == MulAt(a5, a2, one)
    IN  a - (a3 \div 6) + (a5 \div 120) - (a7 \div 5040)

CosAt(a, one) ==
    LET a2 == MulAt(a, a, one)
        a4 == MulAt(a2, a2, one)
        a6 == MulAt(a4, a2, one)
        a8 == MulAt(a6, a2, one)
    IN  one - (a2 \div 2) + (a4 \div 24) - (a6 \div 720) + (a8 \div 40320)

\* for (let v = from; v <= to; v += step), or v < to when strict: the values
\* of v in the iterations followed.
RECURSIVE LoopFrom(_, _, _, _, _)
LoopFrom(v, to, inc, strict, n) ==
    IF n = MaxPerLoop \/ (IF strict THEN v >= to ELSE v > to) THEN << >>
    ELSE << v >> \o LoopFrom(v + inc, to, inc, strict, n + 1)

Loop(from, to, inc) == LoopFrom(from, to, inc, FALSE, 0)

LoopBelow(from, to, inc) == LoopFrom(from, to, inc, TRUE, 0)

RECURSIVE Flatten(_)
Flatten(ss) == IF ss = << >> THEN << >> ELSE Head(ss) \o Flatten(Tail(ss))

\* The calls made by a loop over `values` whose body makes the calls
\* Body(v).
ForEach(values, Body(_)) ==
    Flatten([i \in 1..Len(values) |-> Body(values[i])])

\* A call add(x, y, z, color, part).
AddCall(x, y, z, color, part) ==
    [x |-> x, y |-> y, z |-> z, color |-> color, part |-> part]

LENGTH == 210 * Milli
WIDTH == 90 * Milli
step == 1800
PINK_LIGHT == "#fbcfe8"
PINK_MID == "#f472b6"
PINK_DARK == "#db2777"
PINK_HOT == "#be185d"
GLASS == "#334155"

\* 1. MAIN BODY, for one x.
BodySlice(x) ==
    LET tapered == x > LENGTH \div 10
        ratio == ((x - LENGTH \div 10) * Milli) \div ((LENGTH * 4) \div 10)
        w == IF tapered
             THEN MulAt(WIDTH, Milli - MulAt(ratio, 350, Milli), Milli)
             ELSE WIDTH
        h == IF tapered
             THEN MulAt(26 * Milli, Milli - MulAt(ratio, 700, Milli), Milli)
             ELSE 26 * Milli
        yBase == 8 * Milli
        gradientRatio == ((x + LENGTH \div 2) * Milli) \div LENGTH
        baseCol == IF gradientRatio > 600 THEN PINK_LIGHT
                   ELSE IF gradientRatio > 300 THEN PINK_MID ELSE PINK_DARK
        isDoorZone == x > -30 * Milli /\ x < 50 * Milli
        zs == Loop(-(w \div 2), w \div 2, step)
        ys == Loop(yBase, yBase + h, step)
        zSide == w \div 2
        floorAndTop(z) ==
            IF isDoorZone /\ Abs(z) > WIDTH \div 4 THEN << >>
            ELSE << AddCall(x, yBase + h, z, baseCol, "body"),
                    AddCall(x, yBase, z, "#2a0a18", "body") >>
        sides(y) == << AddCall(x, y, zSide, baseCol, "body"),
                       AddCall(x, y, -zSide, baseCol, "body") >>
        column(z) ==
            ForEach(ys, LAMBDA y : << AddCall(x, y, z, baseCol, "body") >>)
    IN  ForEach(zs, floorAndTop)
          \o (IF isDoorZone THEN << >> ELSE ForEach(ys, sides))
          \o (IF Abs(x - LENGTH \div 2) < step \/ Abs(x + LENGTH \div 2) < step
              THEN ForEach(zs, column) ELSE << >>)

MainBody == ForEach(Loop(-(LENGTH \div 2), LENGTH \div 2, step), BodySlice)

\* 2. CABIN (the roof), for one x.
RoofSlice(x) ==
    LET curve == CosAt(MulAt((x * Milli) \div (45 * Milli), PI \div 2, Milli),
                       Milli)
        roofH == MulAt(30 * Milli, curve, Milli)
        roofW == MulAt(50 * Milli, curve, Milli) + 10 * Milli
        baseY == 34 * Milli
        pane(z) ==
            LET isFrame == Abs(z) > roofW \div 2 - 2 * Milli \/ x > 35 * Milli
            IN  << AddCall(x, baseY + roofH, z,
                           IF isFrame THEN PINK_HOT ELSE GLASS, "glass") >>
    IN  ForEach(Loop(-(roofW \div 2), roofW \div 2, step), pane)

Cabin == ForEach(Loop(-40 * Milli, 40 * Milli, step), RoofSlice)

\* 3. DOORS, for one side (-1 left, 1 right).
DoorSide(side) ==
    LET zBase == (WIDTH \div 2) * side
        part == IF side = 1 THEN "door_right" ELSE "door_left"
        dLen == 80 * Milli
        dStart == -30 * Milli
        slice(x) ==
            LET h == IF x > 20 * Milli
                     THEN MulAt(28 * Milli,
                                Milli - ((x - 20 * Milli) * Milli)
                                           \div (50 * Milli), Milli)
                     ELSE 28 * Milli
                doorCol == IF x > 10 * Milli THEN PINK_LIGHT ELSE PINK_MID
                skin(y) == << AddCall(x, y, zBase, doorCol, part),
                              AddCall(x, y, zBase - 3 * Milli * side, "#4a0e26",
                                      part) >>
                rim(t) == << AddCall(x, 8 * Milli + h, zBase - t * side,
                                     doorCol, part) >>
            IN  ForEach(Loop(8 * Milli, 8 * Milli + h, step), skin)
                  \o ForEach(Loop(0, 3 * Milli, step \div 2), rim)
    IN  ForEach(Loop(dStart, dStart + dLen, step), slice)

Doors == DoorSide(-1) \o DoorSide(1)

\* 4. WHEELS (thick cylinders), for one wheel centre.
Wheel(wx, wz) ==
    LET wheelR == 18 * Milli
        wheelY == 18 * Milli
        tyre(th) ==
            ForEach(Loop(-6 * Milli, 6 * Milli, 2 * Milli),
                    LAMBDA w : << AddCall(wx + MulAt(wheelR, CosAt(th, Milli), Milli),
                                          wheelY + MulAt(wheelR, SinAt(th, Milli), Milli),
                                          wz + w, "#111", "wheel") >>)
        rimRing(r) ==
            ForEach(LoopBelow(0, 2 * PI, 400),
                    LAMBDA th : << AddCall(wx + MulAt(r, CosAt(th, Milli), Milli),
                                           wheelY + MulAt(r, SinAt(th, Milli), Milli),
                                           wz + (IF wz > 0 THEN 6 ELSE -6) * Milli,
                                           "#e2e8f0", "wheel") >>)
    IN  ForEach(LoopBelow(0, 2 * PI, 200), tyre)
          \o ForEach(LoopBelow(0, wheelR - 4 * Milli, 2 * Milli), rimRing)

Wheels ==
    LET wheelZ == WIDTH \div 2 - 5 * Milli
    IN  Wheel(-65 * Milli, wheelZ) \o Wheel(65 * Milli, wheelZ)
          \o Wheel(-65 * Milli, -wheelZ) \o Wheel(65 * Milli, -wheelZ)

\* 5. LIGHTS (heart shape), for one side.
Light(zSide) ==
    LET cx == 100 * Milli
        cy == 20 * Milli
        heart(t) ==
            LET sin == SinAt(t, Milli)
                hy == -((13 * CosAt(t, Milli) - 5 * CosAt(2 * t, Milli)
                          - 2 * CosAt(3 * t, Milli) - CosAt(4 * t, Milli)) * 3)
                         \div 10
                hz == (16 * MulAt(MulAt(sin, sin, Milli), sin, Milli) * 3)
                         \div 10
            IN  << AddCall(cx, cy + hy, zSide + hz, "#ffadd6", "light_front"),
                   AddCall(cx - Milli, cy + hy, zSide + hz, "#ffebf4",
                           "light_front") >>
    IN  ForEach(LoopBelow(0, 2 * PI, 300), heart)

Lights == Light(-30 * Milli) \o Light(30 * Milli)

\* 6. BALLOON & STRING.
Balloon ==
    LET bR == 30 * Milli
        bCy == 130 * Milli
        carRoofY == 34 * Milli
        balloonBottomY == bCy - bR
        ring(lat) ==
            ForEach(LoopBelow(0, 2 * PI, 200),
                    LAMBDA lon :
                        << AddCall(MulAt(MulAt(bR, CosAt(lat, Milli), Milli),
                                         CosAt(lon, Milli), Milli),
                                   bCy + (MulAt(bR, SinAt(lat, Milli), Milli) * 11)
                                            \div 10,
                                   MulAt(MulAt(bR, CosAt(lat, Milli), Milli),
                                         SinAt(lon, Milli), Milli),
                                   "#f472b6", "balloon") >>)
    IN  ForEach(Loop(-(PI \div 2), PI \div 2, 200), ring)
          \o ForEach(LoopBelow(bCy - bR - 4 * Milli, bCy - bR, 2 * Milli),
                     LAMBDA y : << AddCall(0, y, 0, "#fff", "balloon") >>)
          \o ForEach(LoopBelow(carRoofY, balloonBottomY, 2 * Milli),
                     LAMBDA y : << AddCall(0, y, 0, "rgba(255,255,255,0.8)",
                                          "string") >>)

\* The calls of add, in the order the generator makes them.
AddCalls == MainBody \o Cabin \o Doors \o Wheels \o Lights \o Balloon

\* Math.random(): the n-th number drawn in a run, in a stream that the
\* seed picks, as a count of 1 / RandGrid (0 <= Math.random() < 1).
Random(seed, n) ==
    ((((seed * 37 + 11) * (n * 53 + 17)) % 1009) \div 7) % RandGrid

j_double == 2 * 200

\* const j = 0.2
j == 200

\* (Math.random() - 0.5) * j, for the draw r
Jitter(r) == ((2 * r - RandGrid) * j) \div (2 * RandGrid)

\* add(x, y, z, color, part): the point pushed, with the run's draws number
\* n + 1 .. n + 4.
add(call, seed, n) ==
    [x |-> call.x + Jitter(Random(seed, n + 1)),
     y |-> call.y + Jitter(Random(seed, n + 2)),
     z |-> call.z + Jitter(Random(seed, n + 3)),
     baseColor |-> call.color,
     part |-> call.part,
     nx |-> call.x, ny |-> call.y, nz |-> call.z,
     sparkleOffset |-> (Random(seed, n + 4) * 100 * Milli) \div RandGrid]

\* The point cloud of one run of the generator.
carPointsOf(seed) ==
    [i \in 1..Len(AddCalls) |-> add(AddCalls[i], seed, 4 * (i - 1))]

\* The projected points.  The scene's cloud is stood for by a few points of
\* the parts the hit test tells apart; the screen position each of them gets
\* in a frame (the outcome of morph, hinge rotation, scene rotation, hover
\* and perspective, all of them depth > 10) is any position of a small grid.
CloudParts == << "door_left", "door_left", "door_right", "body" >>
ScreenPositions == {<< 300, 400 >>, << 360, 400 >>}
\* Click positions in canvas coordinates (800 x 700), after the scaling by
\* 800 / rect.width and 700 / rect.height: inside a box, within the margin
\* of it, and farther away.
ClickXs == {270, 290, 350, 370}
ClickYs == {370, 400}

\* const margin = 20
HitMargin == 20

\* { minX: 10000, maxX: -10000, minY: 10000, maxY: -10000 }
Sentinel == [minX |-> 10000, maxX |-> -10000, minY |-> 10000, maxY |-> -10000]

NoBounds == [leftDoor |-> Sentinel, rightDoor |-> Sentinel, car |-> Sentinel]

NoClick == [x |-> -1, y |-> -1, inLeft |-> FALSE, inRight |-> FALSE,
            inCar |-> FALSE, lights |-> FALSE, left |-> 0, right |-> 0,
            repeat |-> FALSE]

NoProbe == [kind |-> "none"]

\* What is observed of the latest frame: the targets it smoothed toward,
\* whether it spawned a particle and how many it removed, the number of
\* frames in a row rendered with the lights off, the screen positions of its
\* points and the items it drew, in the order drawn.
NoFrame == [lights |-> FALSE, targetY |-> 0, targetMorph |-> 0,
            tLeft |-> 0, tRight |-> 0, spawned |-> FALSE, removed |-> 0,
            dark |-> 0, pos |-> << >>, drawn |-> << >>]

VARIABLES
    isLightsOn,        \* the prop of CastleScene, App's state
    targetLeftDoor,    \* targetLeftDoor.current
    targetRightDoor,   \* targetRightDoor.current
    boundsRef,         \* boundsRef.current
    hoverYRef,         \* hoverYRef.current, a number of the format
    morphRef,          \* morphRef.current, a number of the format
    valLeftDoor,       \* valLeftDoor.current, a number of the format
    valRightDoor,      \* valRightDoor.current, a number of the format
    timeRef,           \* timeRef.current, counted in frames (0.02 each);
                       \* angleRef.current is PI / 4 + 0.005 per frame
    wheelRotationRef,  \* wheelRotationRef.current, counted in steps of 0.3
    particlesRef,      \* particlesRef.current: the pool of particles
    carPoints,         \* the memoized point cloud, << >> before the mount
    \* observation of the run (not program state)
    lastClick,         \* the latest click: where, what it hit, the targets
                       \* before
    lastFrame,         \* the targets the latest frame smoothed toward
    previousPoints,    \* the point cloud of the generator's run before the latest
    probe,             \* a point of the cloud put through a frame's transforms
    \* the state of the App of the tree / car page
    scene,             \* "tree" or "car"
    appIsLightsOn,     \* its isLightsOn
    \* the state of the DiamondCar of that page
    points,            \* its memoized geometry, << >> before the mount
    carAngle,          \* its angle (and angleRef.current)
    doorLOpen,
    doorROpen,
    rearOpen,
    activePoints       \* the memoized points of the current frame, in the
                       \* order their circles are emitted

\* The cloud and what is observed of it.
cloudVars == << carPoints, previousPoints, probe >>

\* The state of the App of the tree / car page.
appVars == << scene, appIsLightsOn >>

\* The state of the DiamondCar.
diamondVars ==
    << points, carAngle, doorLOpen, doorROpen, rearOpen, activePoints >>

\* The castle page: its scene and what is observed of it.
castleVars ==
    << isLightsOn, targetLeftDoor, targetRightDoor, boundsRef, hoverYRef,
       morphRef, valLeftDoor, valRightDoor, timeRef, wheelRotationRef,
       particlesRef, lastClick, lastFrame, cloudVars >>

sceneVars == << castleVars, appVars, diamondVars >>

\* The refs a click or the light switch leaves alone.
animationVars ==
    << hoverYRef, morphRef, valLeftDoor, valRightDoor, timeRef,
       wheelRotationRef, particlesRef, lastFrame >>

SceneInit ==
    /\ isLightsOn = FALSE
    /\ targetLeftDoor = 0
    /\ targetRightDoor = 0
    /\ boundsRef = NoBounds
    /\ hoverYRef = 0
    /\ morphRef = 0
    /\ valLeftDoor = 0
    /\ valRightDoor = 0
    /\ timeRef = 0
    /\ wheelRotationRef = 0
    /\ particlesRef = << >>
    /\ lastClick = NoClick
    /\ lastFrame = NoFrame
    /\ carPoints = << >>
    /\ previousPoints = << >>
    /\ probe = NoProbe
    /\ scene = "tree"
    /\ appIsLightsOn = FALSE
    /\ points = << >>
    /\ carAngle = 0
    /\ doorLOpen = FALSE
    /\ doorROpen = FALSE
    /\ rearOpen = FALSE
    /\ activePoints = << >>

Min(a, b) == IF a < b THEN a ELSE b
Max(a, b) == IF a > b THEN a ELSE b

\* b.minX = Math.min(b.minX, screenX); ... b.maxY = Math.max(b.maxY, screenY)
Expand(b, screenX, screenY) ==
    [minX |-> Min(b.minX, screenX), maxX |-> Max(b.maxX, screenX),
     minY |-> Min(b.minY, screenY), maxY |-> Max(b.maxY, screenY)]

\* The hit test update of render for one projected point.
HitTestUpdate(bounds, part, screenX, screenY) ==
    [leftDoor  |-> IF part = "door_left"
                   THEN Expand(bounds.leftDoor, screenX, screenY)
                   ELSE bounds.leftDoor,
     rightDoor |-> IF part = "door_right"
                   THEN Expand(bounds.rightDoor, screenX, screenY)
                   ELSE bounds.rightDoor,
     car       |-> Expand(bounds.car, screenX, screenY)]

ResetBounds_keeps(old) == old

\* boundsRef.current.leftDoor = { minX: 10000, ... }; ... rightDoor ...;
\* ... car ...: every frame begins with the three boxes at the sentinels.
ResetBounds(old) == NoBounds

\* The bounds of a frame: reset to the sentinels, then updated for the points
\* 1..n in order, point i projected to pos[i].
RECURSIVE FrameBounds(_, _)
FrameBounds(pos, n) ==
    IF n = 0 THEN ResetBounds(boundsRef)
    ELSE HitTestUpdate(FrameBounds(pos, n - 1), CloudParts[n],
                       pos[n][1], pos[n][2])

\* const targetY = isLightsOn ? 140 : 0
HoverHeight == 140

\* The smoothing factors 0.05 (hover, morph) and 0.1 (doors).
SlowFactor == Literal(1, 20)
DoorFactor == Literal(1, 10)

Smooth_whole(value, target, factor) == target

\* value += (target - value) * factor
Smooth(value, target, factor) ==
    FAdd(value, FMul(FSub(target, value), factor))

DoorTarget_stored(lights, target) == FromInt(target)

DoorTarget_closed(lights, target) == FromInt(0)

\* let tLeft = targetLeftDoor.current; if (isLightsOn) tLeft = 0
DoorTarget(lights, target) == IF lights THEN FromInt(0) ELSE FromInt(target)

\* A particle's life in hundredths: a new particle has life 1.0.
FullLife == 100

\* p.life -= 0.02
LifeStep == 2

Spawns_anyLights(lights, draw) == draw

\* if (isLightsOn) { if (Math.random() > 0.3) particlesRef.current.push(...) }
\* (draw: the random number is above 0.3)
Spawns(lights, draw) == lights /\ draw

\* The particle pushed: { type: 'exhaust', ..., life: 1.0, ... }.
Exhaust == [type |-> "exhaust", life |-> FullLife]

\* p.x += p.vx; p.y += p.vy; p.z += p.vz; p.life -= 0.02 (of a particle's
\* fields the model keeps its life)
Aged(p) == [p EXCEPT !.life = @ - LifeStep]

Alive_orSpent(p) == p.life >= 0

\* filter(p => p.life > 0)
Alive(p) == p.life > 0

\* The pool after a frame's particle generation and update.
Spawned(pool, lights, draw) ==
    IF Spawns(lights, draw) THEN Append(pool, Exhaust) ELSE pool

AgedAll(pool) == [k \in 1..Len(pool) |-> Aged(pool[k])]

Particles(pool, lights, draw) == SelectSeq(AgedAll(Spawned(pool, lights, draw)), Alive)

\* The world z of item i of the render list, given for the first items by
\* zs and 0 for the others.
ZAt(zs, i) == IF i \in DOMAIN zs THEN zs[i] ELSE 0

\* renderList: the car points, then the particles.
RenderList(zs, pool) ==
    [i \in 1..Len(CloudParts) |->
        [type |-> "point", n |-> i, z |-> ZAt(zs, i)]]
      \o [k \in 1..Len(pool) |->
            [type |-> "heart", n |-> Len(CloudParts) + k,
             z |-> ZAt(zs, Len(CloudParts) + k)]]

Compare_descending(a, b) == b.z - a.z

\* (a, b) => a.z - b.z
Compare(a, b) == a.z - b.z

\* renderList.sort(compare): a positive compare(a, b) puts a after b; items
\* that compare equal keep their order.
RECURSIVE InsertSorted(_, _)
InsertSorted(sorted, item) ==
    IF sorted = << >> THEN << item >>
    ELSE IF Compare(Head(sorted), item) > 0 THEN << item >> \o sorted
    ELSE << Head(sorted) >> \o InsertSorted(Tail(sorted), item)

RECURSIVE Sort(_)
Sort(list) ==
    IF list = << >> THEN << >>
    ELSE InsertSorted(Sort(SubSeq(list, 1, Len(list) - 1)), list[Len(list)])

\* const depth = 1000 - item.z
Depth(item) == 1000 - item.z

\* if (depth < 10) continue
Visible(item) == ~(Depth(item) < 10)

\* The items drawn by a frame, in the order drawn.
Drawn(zs, pool) == SelectSeq(Sort(RenderList(zs, pool)), Visible)

\* One frame of render: the animation state and the particles, then the
\* bounds of the frame and the drawing, point i of the cloud being projected
\* to pos[i] and item i of the render list lying at world z zs[i]; draw
\* tells whether the frame's random number for the exhaust is above 0.3.
render(pos, zs, draw) ==
    LET targetY == FromInt(IF isLightsOn THEN HoverHeight ELSE 0)
        targetMorph == FromInt(IF isLightsOn THEN 1 ELSE 0)
        tLeft == DoorTarget(isLightsOn, targetLeftDoor)
        tRight == DoorTarget(isLightsOn, targetRightDoor)
    IN  /\ timeRef' = timeRef + 1
        /\ hoverYRef' = Smooth(hoverYRef, targetY, SlowFactor)
        /\ morphRef' = Smooth(morphRef, targetMorph, SlowFactor)
        /\ valLeftDoor' = Smooth(valLeftDoor, tLeft, DoorFactor)
        /\ valRightDoor' = Smooth(valRightDoor, tRight, DoorFactor)
        /\ wheelRotationRef' = IF isLightsOn THEN wheelRotationRef + 1 ELSE 0
        /\ particlesRef' = Particles(particlesRef, isLightsOn, draw)
        /\ lastFrame' = [lights |-> isLightsOn, targetY |-> targetY,
                         targetMorph |-> targetMorph, tLeft |-> tLeft,
                         tRight |-> tRight,
                         spawned |-> Spawns(isLightsOn, draw),
                         removed |-> Len(Spawned(particlesRef, isLightsOn,
                                                 draw))
                                       - Len(particlesRef'),
                         dark |-> IF isLightsOn THEN 0
                                  ELSE lastFrame.dark + 1,
                         pos |-> pos,
                         drawn |-> Drawn(zs, particlesRef')]
    /\ boundsRef' = FrameBounds(pos, Len(CloudParts))
    /\ UNCHANGED << isLightsOn, targetLeftDoor, targetRightDoor, lastClick >>
    /\ UNCHANGED cloudVars
    /\ UNCHANGED appVars
    /\ UNCHANGED diamondVars
    /\ lastCall' = Call("render", FALSE, 0)
    /\ NoNotes
    /\ UNCHANGED << audioCtx, currentTime, musicScheduler,
                    castleMusicScheduler, nextNoteTime, scoreIndex, timers,
                    startedAt, count, handed >>

\* useMemo(() => { ... return points }, []): the generator runs when the
\* component mounts, with the random numbers of that run.
generate(seed) ==
    /\ carPoints' = carPointsOf(seed)
    /\ previousPoints' = carPoints
    /\ UNCHANGED << isLightsOn, targetLeftDoor, targetRightDoor, boundsRef,
                    lastClick, probe >>
    /\ UNCHANGED animationVars
    /\ UNCHANGED appVars
    /\ UNCHANGED diamondVars
    /\ UNCHANGED audioVars

\* A decimal value of the generator (in Milli units) as a number of the
\* format.
ToFormat(v) ==
    IF v < 0 THEN -Fl((-v * One) \div Milli) ELSE Fl((v * One) \div Milli)

\* let px = p.nx, py = p.ny, pz = p.nz
BasePosition(p) ==
    [x |-> ToFormat(p.nx), y |-> ToFormat(p.ny), z |-> ToFormat(p.nz)]

Morphs(part) == part \in {"glass", "balloon", "string"}

ScaleMult_morph(part, morph) == IF Morphs(part) THEN morph ELSE One

\* scaleMult: 1 - morph for the glass, morph for balloon and string, 1 for
\* every other part.
ScaleMult(part, morph) ==
    IF part = "glass" THEN FSub(One, morph)
    ELSE IF part \in {"balloon", "string"} THEN morph
    ELSE One

\* if (scaleMult < 0.05) continue: the point is not rendered in this frame.
Skipped(part, morph) ==
    Morphs(part) /\ ScaleMult(part, morph) < Literal(1, 20)

\* c + (v - c) * scaleMult
ScaleToward(c, v, scaleMult) == FAdd(c, FMul(FSub(v, c), scaleMult))

\* The scale morph toward the centre of the cabin area (0, 50, 0).
Morphed(part, pos, morph) ==
    IF Morphs(part)
    THEN [x |-> ScaleToward(FromInt(0), pos.x, ScaleMult(part, morph)),
          y |-> ScaleToward(FromInt(50), pos.y, ScaleMult(part, morph)),
          z |-> ScaleToward(FromInt(0), pos.z, ScaleMult(part, morph))]
    ELSE pos

IsDoor(part) == part \in {"door_left", "door_right"}

\* dir = isRight ? 1 : -1
DoorDir(part) == IF part = "door_right" THEN 1 ELSE -1

\* The door's pivot: front (x = 50), bottom (y = 20), side (z = 45 * dir).
DoorPivot(part) ==
    [x |-> FromInt(50), y |-> FromInt(20), z |-> FromInt(45 * DoorDir(part))]

HingeAngle_ajar(openVal) == -Literal(13, 10)

\* totalAngle = -1 * (openVal * 1.3)
HingeAngle(openVal) == FMul(FromInt(-1), FMul(openVal, Literal(13, 10)))

\* flare = (openVal * 15) * dir
Flare(part, openVal) ==
    FMul(FMul(openVal, FromInt(15)), FromInt(DoorDir(part)))

\* Math.cos and Math.sin of an angle of the format.
Cos(angle) == Fl(CosAt(angle, One))

Sin(angle) == Fl(SinAt(angle, One))

\* Door physics: the point turned about the pivot in the x-y plane by the
\* hinge angle, and pushed out along z by the flare.
DoorPhysics(part, pos, openVal) ==
    LET pivot == DoorPivot(part)
        dx == FSub(pos.x, pivot.x)
        dy == FSub(pos.y, pivot.y)
        dz == FSub(pos.z, pivot.z)
        cosA == Cos(HingeAngle(openVal))
        sinA == Sin(HingeAngle(openVal))
        dx2 == FSub(FMul(dx, cosA), FMul(dy, sinA))
        dy2 == FAdd(FMul(dx, sinA), FMul(dy, cosA))
    IN  [x |-> FAdd(pivot.x, dx2),
         y |-> FAdd(pivot.y, dy2),
         z |-> FAdd(FAdd(pivot.z, dz), Flare(part, openVal))]

\* The steps of the frame's loop body that morph a point and swing it with
\* its door, for point i of the cloud, a morph blend and a door-open blend.
\* (The string's sway and the wheels' spin, which come between the two,
\* and the bob and the projection, which follow, are not taken.)
transformPoint(i, morph, openVal) ==
    LET p == carPoints[i]
        base == BasePosition(p)
        morphed == Morphed(p.part, base, morph)
    IN  /\ probe' = [kind |-> "point", index |-> i, part |-> p.part,
                      base |-> base,
                      morph |-> morph, openVal |-> openVal,
                      rendered |-> ~Skipped(p.part, morph),
                      scaleMult |-> ScaleMult(p.part, morph),
                      morphed |-> morphed,
                      flare |-> IF IsDoor(p.part)
                                THEN Flare(p.part, openVal) ELSE 0,
                      pos |-> IF IsDoor(p.part)
                              THEN DoorPhysics(p.part, morphed, openVal)
                              ELSE morphed]
        /\ UNCHANGED << isLightsOn, targetLeftDoor, targetRightDoor,
                        boundsRef, lastClick, carPoints,
                        previousPoints >>
        /\ UNCHANGED animationVars
        /\ UNCHANGED appVars
        /\ UNCHANGED diamondVars
        /\ UNCHANGED audioVars

\* rotateAroundAxis(x, y, z, axis, angle, pivot) of the diamond car.
rotateAroundAxis(x, y, z, axis, angle, pivot) ==
    LET px == FSub(x, pivot.x)
        py == FSub(y, pivot.y)
        pz == FSub(z, pivot.z)
        cos == Cos(angle)
        sin == Sin(angle)
        nx == IF axis = "z" THEN FSub(FMul(px, cos), FMul(py, sin)) ELSE px
        ny == IF axis = "z" THEN FAdd(FMul(px, sin), FMul(py, cos))
              ELSE FSub(FMul(py, cos), FMul(pz, sin))
        nz == IF axis = "z" THEN pz ELSE FAdd(FMul(py, sin), FMul(pz, cos))
    IN  [x |-> FAdd(nx, pivot.x), y |-> FAdd(ny, pivot.y),
         z |-> FAdd(nz, pivot.z)]

\* A call of rotateAroundAxis.
rotatePoint(x, y, z, axis, angle, pivot) ==
    /\ probe' = [kind |-> "rotate", base |-> [x |-> x, y |-> y, z |-> z],
                  axis |-> axis, angle |-> angle, pivot |-> pivot,
                  pos |-> rotateAroundAxis(x, y, z, axis, angle, pivot)]
    /\ UNCHANGED << isLightsOn, targetLeftDoor, targetRightDoor, boundsRef,
                    lastClick, carPoints, previousPoints >>
    /\ UNCHANGED animationVars
    /\ UNCHANGED appVars
    /\ UNCHANGED diamondVars
    /\ UNCHANGED audioVars

\* x >= b.minX - margin && x <= b.maxX + margin && y >= b.minY - margin && ...
InBox(x, y, b, margin) ==
    /\ x >= b.minX - margin
    /\ x <= b.maxX + margin
    /\ y >= b.minY - margin
    /\ y <= b.maxY + margin

Toggled_opensOnly(target) == 1

\* target > 0.5 ? 0 : 1
Toggled(target) == IF 2 * target > 1 THEN 0 ELSE 1

CanToggleDoor_always(lights) == TRUE

\* if (!isLightsOn) target = ...
CanToggleDoor(lights) == ~lights

RightDoorHit_independent(inLeft, inRight) == inRight

\* if (inLeft) { ... } else if (inRight) { ... }
RightDoorHit(inLeft, inRight) == ~inLeft /\ inRight

\* if (inLeft) { ... } else if (inRight) { ... } else { inCar = ... }: the
\* car test is made with the box as accumulated, without the margin.
CarHit(x, y, b, inLeft, inRight) ==
    ~inLeft /\ ~inRight /\ InBox(x, y, b.car, 0)

\* A click at canvas position (x, y): CastleScene.handleClick on the canvas
\* and, unless it stopped the propagation, App.handleInteract on the globe.
click(x, y, ok) ==
    LET b == boundsRef
        inLeft == InBox(x, y, b.leftDoor, HitMargin)
        inRight == InBox(x, y, b.rightDoor, HitMargin)
        inCar == CarHit(x, y, b, inLeft, inRight)
        stopped == inLeft \/ inRight
        plays == (IF inCar THEN 1 ELSE 0) + (IF stopped THEN 0 ELSE 1)
    IN  /\ targetLeftDoor' =
               IF inLeft /\ CanToggleDoor(isLightsOn)
               THEN Toggled(targetLeftDoor)
               ELSE targetLeftDoor
        /\ targetRightDoor' =
               IF RightDoorHit(inLeft, inRight) /\ CanToggleDoor(isLightsOn)
               THEN Toggled(targetRightDoor)
               ELSE targetRightDoor
        /\ playEngineSound(plays, ok)
        /\ lastCall' = [Call("click", FALSE, 0) EXCEPT
                            !.error = IF plays > 0 /\ Throws(ok)
                                      THEN "caught" ELSE "none"]
        /\ lastClick' = [x |-> x, y |-> y, inLeft |-> inLeft,
                         inRight |-> inRight, inCar |-> inCar,
                         lights |-> isLightsOn, left |-> targetLeftDoor,
                         right |-> targetRightDoor,
                         repeat |-> lastClick.x = x /\ lastClick.y = y]
        /\ UNCHANGED << isLightsOn, boundsRef >>
        /\ UNCHANGED animationVars
        /\ UNCHANGED cloudVars
        /\ UNCHANGED appVars
        /\ UNCHANGED diamondVars

\* App.handleToggleLights of the castle page: the light switch.  The state
\* update is requested before toggleDisneyMusic is called, so it happens
\* even when that call raises.
handleToggleLights(ok) ==
    LET newState == ~isLightsOn
    IN  /\ isLightsOn' = newState
        /\ toggleDisneyMusic(newState, ok)
        /\ UNCHANGED << targetLeftDoor, targetRightDoor, boundsRef, lastClick >>
        /\ UNCHANGED animationVars
        /\ UNCHANGED cloudVars
        /\ UNCHANGED appVars
        /\ UNCHANGED diamondVars

\* App.handleToggleLights of the tree / car page: the light switch, which
\* calls toggleChristmasMusic only when the scene shown is the tree.
App_handleToggleLights(ok) ==
    LET newState == ~appIsLightsOn
    IN  /\ appIsLightsOn' = newState
        /\ UNCHANGED scene
        /\ IF scene = "tree"
           THEN toggleChristmasMusic(newState, ok)
           ELSE /\ lastCall' = Call("handleToggleLights", newState, 0)
                /\ NoNotes
                /\ UNCHANGED << audioCtx, currentTime, musicScheduler,
                                castleMusicScheduler, nextNoteTime,
                                scoreIndex, timers, startedAt, count,
                                handed >>
        /\ UNCHANGED castleVars
        /\ UNCHANGED diamondVars

\* App.switchScene(newScene): shows the scene and plays the engine sound;
\* the lights are kept.
switchScene(newScene, ok) ==
    /\ scene' = newScene
    /\ UNCHANGED appIsLightsOn
    /\ playEngineSound(1, ok)
    /\ lastCall' = [Call("switchScene", FALSE, 0) EXCEPT
                        !.error = IF Throws(ok) THEN "caught" ELSE "none"]
    /\ UNCHANGED castleVars
    /\ UNCHANGED diamondVars

\* --------------------------------------------------------- the diamond car
\*
\* DiamondCar.tsx.  Its numbers are numbers of the format.

\* a / b for b > 0, rounded to the format.
FDiv(a, b) ==
    LET g == Pow2(GuardBits)
        n == Abs(a) * One
        exact == (n \div b) * g + ((n % b) * g) \div b
        r == RoundSig(exact, g) \div g
    IN  IF a < 0 THEN -r ELSE r

\* rotateY(x, y, z, angle)
rotateY(x, y, z, angle) ==
    LET cos == Cos(angle)
        sin == Sin(angle)
    IN  [x |-> FSub(FMul(x, cos), FMul(z, sin)),
         y |-> y,
         z |-> FAdd(FMul(x, sin), FMul(z, cos))]

\* A call fillQuad(p1, p2, p3, p4, density, part).
Quad(p1, p2, p3, p4, density, part) ==
    [p1 |-> p1, p2 |-> p2, p3 |-> p3, p4 |-> p4, density |-> density,
     part |-> part]

\* The calls of fillQuad followed: the hood top, the rear deck and the two
\* door shapes.
QuadCalls ==
    << Quad(<< -30, 15, -70 >>, << 30, 15, -70 >>, << 32, 22, -20 >>,
            << -32, 22, -20 >>, 12, "body"),
       Quad(<< -28, 38, 30 >>, << 28, 38, 30 >>, << 30, 25, 75 >>,
            << -30, 25, 75 >>, 14, "rear"),
       Quad(<< -35, 12, -20 >>, << -35, 12, 30 >>, << -28, 38, 30 >>,
            << -32, 22, -20 >>, 12, "doorL"),
       Quad(<< 35, 12, -20 >>, << 35, 12, 30 >>, << 28, 38, 30 >>,
            << 32, 22, -20 >>, 12, "doorR") >>

\* The generator's numbers are held exactly, in thousandths, as those of
\* the castle's generator are.
\*
\* (1-u)*(1-v)*p1[c] + u*(1-v)*p2[c] + u*v*p3[c] + (1-u)*v*p4[c], for
\* u = i / density and v = k / density
Bilinear(q, i, k, c) ==
    LET d == q.density
    IN  (((d - i) * (d - k) * q.p1[c] + i * (d - k) * q.p2[c]
            + i * k * q.p3[c] + (d - i) * k * q.p4[c]) * Milli) \div (d * d)

\* fillQuad: the calls of addPoint of one quad, before the jitter, for the
\* iterations followed of its two loops.
fillQuad(q) ==
    LET steps == Loop(0, q.density, 1)
    IN  Flatten([a \in 1..Len(steps) |->
                    [b \in 1..Len(steps) |->
                        [x |-> Bilinear(q, steps[a], steps[b], 1),
                         y |-> Bilinear(q, steps[a], steps[b], 2),
                         z |-> Bilinear(q, steps[a], steps[b], 3),
                         part |-> q.part, jitter |-> TRUE]]])

\* The rim point (scale = 1) or the spoke point (scale = 0.5) of iteration
\* i of addWheel: theta = (i/40) * Math.PI * 2, r = 11.
WheelPoint(cx, cz, i, scale) ==
    LET theta == (i * PI * 2) \div 40
        r == MulAt(11 * Milli, scale, Milli)
    IN  [x |-> cx * Milli,
         y |-> 11 * Milli + MulAt(r, CosAt(theta, Milli), Milli),
         z |-> cz * Milli + MulAt(r, SinAt(theta, Milli), Milli),
         part |-> "wheel", jitter |-> FALSE]

\* addWheel(cx, cz): the rim point of each iteration followed and, for
\* i % 4 === 0, the spoke point.
addWheel(cx, cz) ==
    LET steps == LoopBelow(0, 40, 1)
    IN  Flatten([a \in 1..Len(steps) |->
            IF steps[a] % 4 = 0
            THEN << WheelPoint(cx, cz, steps[a], Milli),
                    WheelPoint(cx, cz, steps[a], Milli \div 2) >>
            ELSE << WheelPoint(cx, cz, steps[a], Milli) >>])

\* The calls of addPoint, in the order the generator makes them.
PointCalls ==
    Flatten([n \in 1..Len(QuadCalls) |-> fillQuad(QuadCalls[n])])
      \o addWheel(-34, -45) \o addWheel(34, -45)
      \o addWheel(-34, 45) \o addWheel(34, 45)

\* Math.random() - 0.5, for the draw r
Centered(r) == ((2 * r - RandGrid) * Milli) \div (2 * RandGrid)

\* The point pushed by the n-th call of addPoint, its coordinates as the
\* format holds them; of the run's draws, the three of a quad point's
\* jitter are followed.  The id counts the points followed.
addPoint(call, seed, n) ==
    LET x == ToFormat(call.x + (IF call.jitter
                                THEN Centered(Random(seed, 3 * n - 2)) ELSE 0))
        y == ToFormat(call.y + (IF call.jitter
                                THEN Centered(Random(seed, 3 * n - 1)) ELSE 0))
        z == ToFormat(call.z + (IF call.jitter
                                THEN Centered(Random(seed, 3 * n)) ELSE 0))
    IN  [id |-> n - 1, baseX |-> x, baseY |-> y, baseZ |-> z,
         x |-> x, y |-> y, z |-> z, part |-> call.part]

\* The geometry of one run of the generator.
pointsOf(seed) ==
    [n \in 1..Len(PointCalls) |-> addPoint(PointCalls[n], seed, n)]

\* Math.PI / 3.5
DoorSwing == Fl((2 * PI * One) \div (7 * Milli))

\* Math.PI / 4
QuarterPi == Fl((PI * One) \div (4 * Milli))

\* if (p.part === part && open) the position is turned about the hinge
Hinged(p, part, open, pos, axis, angle, pivot) ==
    IF p.part = part /\ open
    THEN rotateAroundAxis(pos.x, pos.y, pos.z, axis, angle, pivot)
    ELSE pos

\* 1. Apply Part Animations (Doors/Trunk) BEFORE global rotation
PartAnimation(p, doorL, doorR, rear) ==
    Hinged(p, "rear", rear,
           Hinged(p, "doorR", doorR,
                  Hinged(p, "doorL", doorL,
                         [x |-> p.baseX, y |-> p.baseY, z |-> p.baseZ],
                         "z", -DoorSwing,
                         [x |-> FromInt(-35), y |-> FromInt(12),
                          z |-> FromInt(-20)]),
                  "z", DoorSwing,
                  [x |-> FromInt(35), y |-> FromInt(12), z |-> FromInt(-20)]),
           "x", QuarterPi,
           [x |-> FromInt(0), y |-> FromInt(38), z |-> FromInt(30)])

\* 2. Global Rotation
GlobalRotation(pos, angle) == rotateY(pos.x, pos.y, pos.z, angle)

\* { ...p, x: rotatedGlobal.x, y: rotatedGlobal.y, z: rotatedGlobal.z }
Moved(p, rotatedGlobal) ==
    [p EXCEPT !.x = rotatedGlobal.x, !.y = rotatedGlobal.y,
              !.z = rotatedGlobal.z]

\* (a, b) => b.z - a.z
PainterCompare(a, b) == b.z - a.z

\* .sort(compare): a positive compare(a, b) puts a after b; points that
\* compare equal keep their order.
RECURSIVE InsertPoint(_, _)
InsertPoint(sorted, p) ==
    IF sorted = << >> THEN << p >>
    ELSE IF PainterCompare(Head(sorted), p) > 0 THEN << p >> \o sorted
    ELSE << Head(sorted) >> \o InsertPoint(Tail(sorted), p)

RECURSIVE SortPoints(_)
SortPoints(list) ==
    IF list = << >> THEN << >>
    ELSE InsertPoint(SortPoints(SubSeq(list, 1, Len(list) - 1)),
                     list[Len(list)])

\* The value of the memo activePoints: every point after its part's
\* animation and the global rotation, sorted.
ActivePointsOf(pts, angle, doorL, doorR, rear) ==
    SortPoints([n \in 1..Len(pts) |->
        Moved(pts[n],
              GlobalRotation(PartAnimation(pts[n], doorL, doorR, rear),
                             angle))])

\* const scaleFactor = 350 / (350 - p.z)
scaleFactor(p) == FDiv(FromInt(350), FSub(FromInt(350), p.z))

\* The first render of DiamondCar: its state and its two memos.
DiamondCar(seed) ==
    /\ points' = pointsOf(seed)
    /\ carAngle' = QuarterPi
    /\ doorLOpen' = FALSE
    /\ doorROpen' = FALSE
    /\ rearOpen' = FALSE
    /\ activePoints' = ActivePointsOf(points', carAngle', FALSE, FALSE, FALSE)
    /\ UNCHANGED << castleVars, appVars, audioVars >>

\* animate: one animation frame of the mounted car, and the render that
\* setAngle brings.
animate ==
    /\ points # << >>
    /\ carAngle' = IF appIsLightsOn THEN FAdd(carAngle, Literal(5, 1000))
                   ELSE carAngle
    /\ activePoints' =
           ActivePointsOf(points, carAngle', doorLOpen, doorROpen, rearOpen)
    /\ UNCHANGED << points, doorLOpen, doorROpen, rearOpen >>
    /\ UNCHANGED << castleVars, appVars, audioVars >>

\* handlePartClick(part, e), and the render it brings.
handlePartClick(part) ==
    /\ doorLOpen' = IF part = "doorL" THEN ~doorLOpen ELSE doorLOpen
    /\ doorROpen' = IF part = "doorR" THEN ~doorROpen ELSE doorROpen
    /\ rearOpen' = IF part = "rear" THEN ~rearOpen ELSE rearOpen
    /\ activePoints' =
           ActivePointsOf(points, carAngle, doorLOpen', doorROpen', rearOpen')
    /\ UNCHANGED << points, carAngle >>
    /\ UNCHANGED << castleVars, appVars, audioVars >>

\* --------------------------------------------------------- specifications

vars == << audioVars, sceneVars >>

Init == AudioInit /\ SceneInit

ToggleChristmas ==
    /\ \E shouldPlay \in BOOLEAN : toggleChristmasMusic(shouldPlay, TRUE)
    /\ UNCHANGED sceneVars

ToggleDisney ==
    /\ \E shouldPlay \in BOOLEAN : toggleDisneyMusic(shouldPlay, TRUE)
    /\ UNCHANGED sceneVars

TreeTimer == treeScheduler /\ UNCHANGED sceneVars

CastleTimer == castleScheduler /\ UNCHANGED sceneVars

Tick == Advance(Quantum, MaxClock, MaxLate) /\ UNCHANGED sceneVars

\* Any calls of the two toggles, with timer callbacks up to MaxLate late.
Next ==
    \/ ToggleChristmas
    \/ ToggleDisney
    \/ TreeTimer
    \/ CastleTimer
    \/ Tick

Spec == Init /\ [][Next]_vars

\* The first call on a freshly loaded page: it creates the audio context.
FreshStartChristmas ==
    audioCtx = NULL /\ toggleChristmasMusic(TRUE, TRUE) /\ UNCHANGED sceneVars

FreshStartDisney ==
    audioCtx = NULL /\ toggleDisneyMusic(TRUE, TRUE) /\ UNCHANGED sceneVars

LongTick == Advance(Quantum, MaxClockLong, MaxLate) /\ UNCHANGED sceneVars

\* One playback session of either score from a fresh start, followed over
\* more than a full cycle, with timer callbacks up to MaxLate late.
LongNext ==
    \/ FreshStartChristmas
    \/ FreshStartDisney
    \/ TreeTimer
    \/ CastleTimer
    \/ LongTick

LongSpec == Init /\ [][LongNext]_vars

\* The audio clock advances one unit at a time and every timer callback runs
\* exactly when it is due, LOOKAHEAD after the previous one.
ExactTick == Advance(1, MaxClockCycle, 0) /\ UNCHANGED sceneVars

\* One playback session of the bell score with ticks every 0.1 s.
CycleNext ==
    \/ FreshStartChristmas
    \/ TreeTimer
    \/ ExactTick

CycleSpec == Init /\ [][CycleNext]_vars

SwitchTick == Advance(Quantum, MaxClockSwitch, 0) /\ UNCHANGED sceneVars

\* Any calls of the two toggles, every timer callback running before the
\* clock passes its due time, followed until one score's index has passed
\* the other score's length.
SwitchNext ==
    \/ ToggleChristmas
    \/ ToggleDisney
    \/ TreeTimer
    \/ CastleTimer
    \/ SwitchTick

SwitchSpec == Init /\ [][SwitchNext]_vars

AppLightSwitch == \E ok \in BOOLEAN : App_handleToggleLights(ok)

SwitchScene ==
    \E newScene \in {"tree", "car"}, ok \in BOOLEAN : switchScene(newScene, ok)

\* The tree / car page: light-switch presses and scene switches in any
\* order, with the bell music's timer callbacks.
AppNext ==
    \/ AppLightSwitch
    \/ SwitchScene
    \/ TreeTimer
    \/ Tick

AppSpec == Init /\ [][AppNext]_vars

\* The component is mounted once, with the page.
DiamondMount == points = << >> /\ \E seed \in 0..MaxSeed : DiamondCar(seed)

\* Animation frames, while the car has turned by less than MaxFramesCar
\* steps.
CarFrame ==
    /\ carAngle - QuarterPi < MaxFramesCar * Literal(5, 1000)
    /\ animate

\* A click on one of the circles.
PartClick ==
    \E part \in {activePoints[n].part : n \in 1..Len(activePoints)} :
        handlePartClick(part)

\* The light switch of the page, on a host whose audio works.
CarLightSwitch == App_handleToggleLights(TRUE)

CarNext == DiamondMount \/ CarFrame \/ PartClick \/ CarLightSwitch

\* The car page: the diamond car, its frames, clicks on its points and the
\* light switch.
CarSpec == Init /\ [][CarNext]_vars

Click == \E x \in ClickXs, y \in ClickYs, ok \in BOOLEAN : click(x, y, ok)

\* The castle page: frames, clicks on the canvas and the light switch.
LightSwitch == \E ok \in BOOLEAN : handleToggleLights(ok)

\* A frame of the animation loop, up to a number of frames.
Frame ==
    /\ timeRef < MaxFramesScene
    /\ \E pos \in [1..Len(CloudParts) -> ScreenPositions] :
           render(pos, << >>, TRUE)

SceneNext ==
    \/ Frame
    \/ Click
    \/ LightSwitch

SceneSpec == Init /\ [][SceneNext]_vars

\* The projection of a frame in which the left door's points lie at one
\* place and all other points at another.
DoorsApart ==
    [i \in 1..Len(CloudParts) |->
        IF CloudParts[i] = "door_left" THEN << 300, 400 >> ELSE << 360, 400 >>]

DoorClickXs == {290, 370}

AnimFrame == timeRef < MaxFrames /\ render(DoorsApart, << >>, TRUE)

\* The castle page over a longer run of frames with the car seen from one
\* side: frames, clicks and the light switch in any order.
\* A click on the left door or on the right door.
DoorClick == \E x \in DoorClickXs : click(x, 400, TRUE)

LightsOnOff == handleToggleLights(TRUE)

AnimNext ==
    \/ AnimFrame
    \/ DoorClick
    \/ LightsOnOff

AnimSpec == Init /\ [][AnimNext]_vars

ParticleFrame ==
    /\ timeRef < MaxFramesParticles
    /\ \E draw \in (IF timeRef < MaxBusyFrames THEN BOOLEAN ELSE {TRUE}) :
           render(DoorsApart, << >>, draw)

ParticleSwitch == timeRef < MaxBusyFrames /\ handleToggleLights(TRUE)

\* The castle page followed for longer than a particle lives: the lights
\* switched during the first frames, then frames only.
ParticleNext ==
    \/ ParticleFrame
    \/ ParticleSwitch

ParticleSpec == Init /\ [][ParticleNext]_vars

\* World z of an item: behind the car's centre, in front of it, and too
\* near the camera to be drawn (depth 5).
Depths == {-50, 60, 995}

\* The items of the render list whose world z is free in DrawSpec: the
\* first and the last car point and the first particle; the others lie at
\* z = 0.
FreeItems == {1, Len(CloudParts), Len(CloudParts) + 1}

DrawFrame ==
    /\ timeRef < MaxFramesDraw
    /\ \E zs \in [FreeItems -> Depths] : render(DoorsApart, zs, TRUE)

\* The castle page with the items of a frame at any depths: frames and the
\* light switch.
DrawNext ==
    \/ DrawFrame
    \/ LightsOnOff

DrawSpec == Init /\ [][DrawNext]_vars

BoundsFrame ==
    /\ timeRef < MaxFramesBounds
    /\ \E pos \in [1..Len(CloudParts) -> ScreenPositions] :
           render(pos, << >>, TRUE)

AnyClick == \E x \in ClickXs, y \in ClickYs : click(x, y, TRUE)

\* The castle page over several frames with the points projected anywhere:
\* frames and clicks in any order.
BoundsNext ==
    \/ BoundsFrame
    \/ AnyClick

BoundsSpec == Init /\ [][BoundsNext]_vars

Mount == \E seed \in 0..MaxSeed : generate(seed)

\* The component mounted again and again: runs of the generator.
GenSpec == Init /\ [][Mount]_vars

\* The blends a point is transformed with: 0, 0.04, 0.5, 0.96 and 1.
Blends == {0, Literal(1, 25), Literal(1, 2), Literal(24, 25), One}

\* The component is mounted once.
MountOnce == carPoints = << >> /\ generate(0)

\* for (let i = 0; i < carPoints.length; i++): a frame's loop takes the
\* points in order, all with the blends the frame started with.
TransformPoint ==
    \E i \in 1..Len(carPoints), morph \in Blends, openVal \in Blends :
        /\ IF probe.kind = "point"
           THEN /\ i = probe.index + 1
                /\ morph = probe.morph
                /\ openVal = probe.openVal
           ELSE i = 1
        /\ transformPoint(i, morph, openVal)

\* The pivots the diamond car turns its doors and trunk about, and one more.
Pivots ==
    { [x |-> FromInt(-35), y |-> FromInt(12), z |-> FromInt(-20)],
      [x |-> FromInt(35), y |-> FromInt(12), z |-> FromInt(-20)],
      [x |-> FromInt(0), y |-> FromInt(38), z |-> FromInt(30)],
      [x |-> FromInt(0), y |-> FromInt(0), z |-> FromInt(0)] }

\* 0, Math.PI / 4 and -Math.PI / 3.5
Angles ==
    {0, Fl((PI * One) \div (4 * Milli)), -Fl((2 * PI * One) \div (7 * Milli))}

\* Coordinates of the points turned: -26.4, -20, 0, 0.1, 12 and 28.2.
Coords == {ToFormat(v) : v \in {-26400, -20000, 0, 100, 12000, 28200}}

\* One call of rotateAroundAxis, on inputs drawn before any frame.
RotatePoint ==
    /\ probe = NoProbe
    /\ \E x \in Coords, y \in Coords, z \in Coords, axis \in {"x", "z"},
          angle \in Angles, pivot \in Pivots :
           rotatePoint(x, y, z, axis, angle, pivot)

PointNext == MountOnce \/ TransformPoint \/ RotatePoint

\* The per-point transforms applied to the points of the cloud and to
\* chosen points.
PointSpec == Init /\ [][PointNext]_vars

\* The public audio operations called directly, on a host whose
\* AudioContext constructor may fail.
ToggleChristmasAnyHost ==
    /\ \E shouldPlay, ok \in BOOLEAN : toggleChristmasMusic(shouldPlay, ok)
    /\ UNCHANGED sceneVars

ToggleDisneyAnyHost ==
    /\ \E shouldPlay, ok \in BOOLEAN : toggleDisneyMusic(shouldPlay, ok)
    /\ UNCHANGED sceneVars

SoundEffect(op, ok, sources) ==
    /\ getCtx(ok)
    /\ oscillators' = Caught(ok, sources)
    /\ processed' = << >>
    /\ lastStart' = LatestStart
    /\ lastCall' = [Call(op, FALSE, 0) EXCEPT
                        !.error = IF Throws(ok) THEN "caught" ELSE "none"]
    /\ UNCHANGED << currentTime, musicScheduler, castleMusicScheduler,
                    nextNoteTime, scoreIndex, timers, startedAt, count,
                    handed >>
    /\ UNCHANGED sceneVars

EngineSound ==
    \E ok \in BOOLEAN : SoundEffect("playEngineSound", ok, EngineOscillators)

playFireworkSound ==
    \E ok \in BOOLEAN : SoundEffect("playFireworkSound", ok, FireworkSources)

ErrorNext ==
    \/ ToggleChristmasAnyHost
    \/ ToggleDisneyAnyHost
    \/ EngineSound
    \/ playFireworkSound
    \/ TreeTimer
    \/ CastleTimer
    \/ Tick

ErrorSpec == Init /\ [][ErrorNext]_vars

\* ------------------------------------------------------------------ claims

Toggles == {"toggleChristmasMusic", "toggleDisneyMusic"}

\* The scheduler variables of the program.
schedulerVars ==
    << musicScheduler, castleMusicScheduler, nextNoteTime, scoreIndex, timers >>

\* The sum of the durations, in quarter beats, of the k entries that precede
\* the k-th processed entry, cycling through the score.
RECURSIVE QuartersBefore(_, _)
QuartersBefore(score, k) ==
    IF k = 0 THEN 0
    ELSE QuartersBefore(score, k - 1) + score[((k - 1) % Len(score)) + 1].duration

\* (60 / 140) s times a number of quarter beats, in units of 1/140 s.
BeatsToUnits(quarters) == (60 * quarters) \div 4

\* C1: after any sequence of toggle calls and timer callbacks at most one of
\* the two timer handles is non-null, and the host holds at most one pending
\* scheduler timer.
C1_AtMostOneScheduler ==
    /\ ~(musicScheduler # NullHandle /\ castleMusicScheduler # NullHandle)
    /\ Cardinality(timers) <= 1

\* C1's case: a start of the orchestral melody was called while the bell
\* scheduler was running, and the bell scheduler still runs alone.
C1_Witness ==
    /\ lastCall.op = "toggleDisneyMusic"
    /\ lastCall.arg
    /\ lastCall.running = "tree"
    /\ musicScheduler # NullHandle

\* C2: every note is handed to the synthesizer no later than its own start
\* time, whenever the timer callback that hands it over ran at most the
\* lookahead margin (0.1 s) after it was due.
C2_NotesHandedInTime ==
    lastCall.late <= SCHEDULE_AHEAD_TIME =>
        \A i \in 1..Len(oscillators) : oscillators[i].at <= oscillators[i].start

\* C3: from a fresh start the k-th entry processed is entry k mod length of
\* the score that plays, the entries of one callback are consecutive and end
\* at the running count, and each entry after the first starts strictly
\* later than the entry before it.
C3_ScoreOrder ==
    \A i \in 1..Len(processed) :
        LET e == processed[i]
        IN  /\ e.index = e.k % Len(Score(e.type))
            /\ e.k = count - Len(processed) + (i - 1)
            /\ e.k > 0 => e.time > e.prev
            /\ e.k = 0 => e.prev = -1

\* C3's case: a late callback has processed several entries at once, all of
\* them in the second pass through the score.
C3_Witness ==
    /\ Len(processed) >= 2
    /\ lastCall.late > 0
    /\ processed[1].k >= Len(Score(processed[1].type))
    /\ processed[1].index = processed[1].k - Len(Score(processed[1].type))

C5_StopCancels ==
    /\ [](Running = "none" => timers = {})
    /\ [][(Running = "none" /\ Running' = "none") =>
              /\ processed' = << >>
              /\ oscillators' = << >>
              /\ UNCHANGED << nextNoteTime, scoreIndex, count, handed >>]_vars

\* C5's case: the stop call has just returned for a melody that had already
\* processed entries.
C5_Witness ==
    /\ lastCall.op \in Toggles
    /\ ~lastCall.arg
    /\ lastCall.running # "none"
    /\ count > 0
    /\ Running = "none"

\* C6: a start call made while either scheduler runs changes no scheduler
\* variable, creates no timer and hands over no note.
C6_StartWhileRunningNoOp ==
    [][(lastCall'.op \in Toggles /\ lastCall'.arg /\ Running # "none") =>
           /\ UNCHANGED schedulerVars
           /\ UNCHANGED << count, handed, startedAt >>
           /\ processed' = << >>
           /\ oscillators' = << >>]_vars

\* C6's case: the bell melody's start was called while the orchestral
\* scheduler ran past the first entry.
C6_Witness ==
    /\ lastCall.op = "toggleChristmasMusic"
    /\ lastCall.arg
    /\ lastCall.running = "castle"
    /\ lastCall.index > 0

\* C7: when a start call that takes effect returns, the index is 0, the
\* cursor is the audio clock + 0.1 s and nothing has been processed; and the
\* first entry processed after it is entry 0 of the score.
C7_RestartFromBeginning ==
    /\ (lastCall.op \in Toggles /\ lastCall.arg /\ lastCall.running = "none") =>
           /\ scoreIndex = 0
           /\ nextNoteTime = currentTime + (UnitsPerSecond \div 10)
           /\ count = 0
           /\ processed = << >>
    /\ \A i \in 1..Len(processed) :
           processed[i].k = 0 => processed[i].index = 0

\* C7's case: a start takes effect after a stop that left the index in the
\* middle of the score.
C7_Witness ==
    /\ lastCall.op \in Toggles
    /\ lastCall.arg
    /\ lastCall.running = "none"
    /\ lastCall.index > 0

\* C8: with the bell score started and a callback every 0.1 s, when the
\* audio clock has advanced by exactly one cycle of the score (its total
\* duration times 60/140 s) as many notes as the score has entries have been
\* handed over and the index is back at 0.
C8_OneCycle ==
    (/\ musicScheduler # NullHandle
     /\ currentTime = startedAt
           + BeatsToUnits(QuartersBefore(JINGLE_BELLS, Len(JINGLE_BELLS)))) =>
        /\ handed = Len(JINGLE_BELLS)
        /\ count = Len(JINGLE_BELLS)
        /\ scoreIndex = 0

\* C8's case: the clock stands exactly one cycle after the start.
C8_Witness ==
    /\ musicScheduler # NullHandle
    /\ currentTime = startedAt
          + BeatsToUnits(QuartersBefore(JINGLE_BELLS, Len(JINGLE_BELLS)))
    /\ currentTime > startedAt
    /\ handed = Len(JINGLE_BELLS)

LeftOnlyClick(c) == c.x >= 0 /\ ~c.lights /\ c.inLeft /\ ~c.inRight

\* C10: with lights off a click inside only the left-door box flips the left
\* door's target between 0 and 1 and leaves the right door's target as it
\* was; a following click at the same place, again inside only the left-door
\* box with lights off, puts the left target back to what it was before the
\* first.
C10_LeftDoorToggle ==
    /\ [](LeftOnlyClick(lastClick) =>
              /\ targetLeftDoor \in {0, 1}
              /\ targetLeftDoor = 1 - lastClick.left
              /\ targetRightDoor = lastClick.right)
    /\ [][(/\ lastCall'.op = "click"
           /\ lastClick'.repeat
           /\ LeftOnlyClick(lastClick)
           /\ LeftOnlyClick(lastClick')) =>
              /\ targetLeftDoor' = lastClick.left
              /\ targetRightDoor' = targetRightDoor]_vars

\* C10's case: the second of two clicks at one place inside only the
\* left-door box has closed the left door that the first had opened, while
\* the right door stayed open.
C10_Witness ==
    /\ LeftOnlyClick(lastClick)
    /\ lastClick.repeat
    /\ lastClick.left = 1
    /\ targetLeftDoor = 0
    /\ targetRightDoor = 1

\* C11: a click made with lights on inside a door's box expanded by the
\* margin leaves both doors' open targets as they were before the click.
C11_DoorsInertLightsOn ==
    (/\ lastClick.x >= 0
     /\ lastClick.lights
     /\ (lastClick.inLeft \/ lastClick.inRight)) =>
        /\ targetLeftDoor = lastClick.left
        /\ targetRightDoor = lastClick.right

\* C11's case: with lights on, a click inside the left-door box has left
\* open the door that a lights-off click had opened.
C11_Witness ==
    /\ lastCall.op = "click"
    /\ lastClick.lights
    /\ lastClick.inLeft
    /\ lastClick.left = 1
    /\ targetLeftDoor = 1

\* C12: a single click never changes both doors' targets, never both
\* changes a door's target and plays the engine sound, and when it lies
\* inside both door boxes it leaves the right door's target alone; a click
\* that matched a door box did not match the car box.
C12_FirstMatchWins ==
    lastCall.op = "click" =>
        /\ ~(targetLeftDoor # lastClick.left /\ targetRightDoor # lastClick.right)
        /\ (targetLeftDoor # lastClick.left \/ targetRightDoor # lastClick.right)
               => oscillators = << >>
        /\ (lastClick.inLeft /\ lastClick.inRight)
               => targetRightDoor = lastClick.right
        /\ (lastClick.inLeft \/ lastClick.inRight) => ~lastClick.inCar

\* C12's case: a lights-off click inside both door boxes (and inside the
\* car's extent) has opened the left door only, without a sound.
C12_Witness ==
    /\ lastCall.op = "click"
    /\ lastClick.inLeft
    /\ lastClick.inRight
    /\ InBox(lastClick.x, lastClick.y, boundsRef.car, 0)
    /\ ~lastClick.lights
    /\ targetLeftDoor = 1
    /\ lastClick.left = 0
    /\ oscillators = << >>

\* C13: a click that matched no door box and lies within the 20 px margin
\* of the car box's accumulated extent matches the car box.
C13_CarBoxMargin ==
    (/\ lastCall.op = "click"
     /\ ~lastClick.inLeft
     /\ ~lastClick.inRight
     /\ InBox(lastClick.x, lastClick.y, boundsRef.car, HitMargin)) =>
        lastClick.inCar

\* C14: a click that matches none of the three boxes (each expanded by the
\* margin) changes no door target and plays no sound.
C14_NoMatchNoOp ==
    (/\ lastCall.op = "click"
     /\ ~lastClick.inLeft
     /\ ~lastClick.inRight
     /\ ~InBox(lastClick.x, lastClick.y, boundsRef.car, HitMargin)) =>
        /\ targetLeftDoor = lastClick.left
        /\ targetRightDoor = lastClick.right
        /\ oscillators = << >>

\* C16: when the audio context cannot be created, no public audio operation
\* lets the error out to its caller: the error is caught, nothing is started
\* and the scheduler variables stay as they were.
C16_AudioErrorsCaught ==
    lastCall.error # "none" =>
        /\ lastCall.error = "caught"
        /\ oscillators = << >>
        /\ processed = << >>
        /\ Running = "none"
        /\ timers = {}

\* C15: in a frame rendered with lights on both door blends are smoothed
\* toward 0, whatever the stored targets are, and neither blend increases.
C15_LightsOnForcesDoorsClosed ==
    /\ [](lastFrame.lights => lastFrame.tLeft = 0 /\ lastFrame.tRight = 0)
    /\ [][(timeRef' # timeRef /\ isLightsOn) =>
              /\ valLeftDoor' <= valLeftDoor
              /\ valRightDoor' <= valRightDoor]_vars

\* C15's case: a lights-on frame has smoothed toward 0 the blend of a left
\* door that a click had opened and whose stored target is still 1.
C15_Witness ==
    /\ lastCall.op = "render"
    /\ lastFrame.lights
    /\ targetLeftDoor = 1
    /\ valLeftDoor > 0
    /\ lastFrame.tLeft = 0

\* v lies between a and b, ends included.
Between(a, v, b) == (a <= v /\ v <= b) \/ (b <= v /\ v <= a)

\* v1 is v0 moved toward t by 1/den of the remaining distance, up to one
\* step of the number format at the magnitude of v0 and t.
MovedByFraction(v0, v1, t, den) ==
    LET m == IF Abs(v0) > Abs(t) THEN Abs(v0) ELSE Abs(t)
    IN  Abs(den * v1 - ((den - 1) * v0 + t)) <= den * Ulp(m)

\* C17: every frame moves hover height and morph by 0.05, and both door
\* blends by 0.1, of the remaining distance toward the frame's target, never
\* past it; morph and door blends stay within [0, 1] and hover height within
\* [0, 140].
C17_SmoothingInRange ==
    /\ [](/\ 0 <= morphRef /\ morphRef <= One
          /\ 0 <= valLeftDoor /\ valLeftDoor <= One
          /\ 0 <= valRightDoor /\ valRightDoor <= One
          /\ 0 <= hoverYRef /\ hoverYRef <= HoverHeight * One)
    /\ [][timeRef' # timeRef =>
              /\ Between(hoverYRef, hoverYRef', lastFrame'.targetY)
              /\ Between(morphRef, morphRef', lastFrame'.targetMorph)
              /\ Between(valLeftDoor, valLeftDoor', lastFrame'.tLeft)
              /\ Between(valRightDoor, valRightDoor', lastFrame'.tRight)
              /\ MovedByFraction(hoverYRef, hoverYRef', lastFrame'.targetY, 20)
              /\ MovedByFraction(morphRef, morphRef', lastFrame'.targetMorph, 20)
              /\ MovedByFraction(valLeftDoor, valLeftDoor', lastFrame'.tLeft, 10)
              /\ MovedByFraction(valRightDoor, valRightDoor', lastFrame'.tRight,
                                 10)]_vars

\* C17's case: after a light switch on and off and a click on the left
\* door, a frame has moved morph and hover height down and the left door's
\* blend up, all of them strictly between their bounds.
C17_Witness ==
    /\ lastCall.op = "render"
    /\ lastFrame.targetMorph = 0
    /\ lastFrame.tLeft = One
    /\ 0 < morphRef /\ morphRef < One
    /\ 0 < hoverYRef /\ hoverYRef < HoverHeight * One
    /\ 0 < valLeftDoor /\ valLeftDoor < One

\* Two clouds have the same points but for the fields drawn at random: the
\* same number of points and at every index the same part, colour and
\* nominal coordinates.
SameShape(a, b) ==
    /\ Len(a) = Len(b)
    /\ \A i \in 1..Len(a) :
           /\ a[i].part = b[i].part
           /\ a[i].baseColor = b[i].baseColor
           /\ a[i].nx = b[i].nx /\ a[i].ny = b[i].ny /\ a[i].nz = b[i].nz

SamePosition(a, b) == a.x = b.x /\ a.y = b.y /\ a.z = b.z

\* `out` is `b` but for the rounding of b - pivot: they differ by no more
\* than one step of the format at the magnitude of b - pivot, and not at all
\* when b - pivot is a number of the format.
BackFromPivot(out, b, pivot) ==
    /\ Abs(out - b) <= Ulp(Abs(b - pivot))
    /\ Fl(b - pivot) = b - pivot => out = b

NearPosition(out, b, pivot) ==
    /\ BackFromPivot(out.x, b.x, pivot.x)
    /\ BackFromPivot(out.y, b.y, pivot.y)
    /\ BackFromPivot(out.z, b.z, pivot.z)

\* C18 as stated: with a door's open blend 0, every point of the door has
\* a transformed position equal to its base position and the flare is 0;
\* and rotateAroundAxis with angle 0 returns its input point.
C18_IdentityAtRest ==
    /\ (probe.kind = "point" /\ IsDoor(probe.part) /\ probe.openVal = 0)
          => SamePosition(probe.pos, probe.base) /\ probe.flare = 0
    /\ (probe.kind = "rotate" /\ probe.angle = 0)
          => SamePosition(probe.pos, probe.base)

\* C18 amended: with a door's open blend 0 the flare is 0 and every point
\* of the door is at its base position up to the rounding of (base - pivot),
\* exactly so when base - pivot is a number of the format; likewise for
\* rotateAroundAxis with angle 0.
C18_IdentityUpToRounding ==
    /\ (probe.kind = "point" /\ IsDoor(probe.part) /\ probe.openVal = 0)
          => /\ NearPosition(probe.pos, probe.base, DoorPivot(probe.part))
             /\ probe.flare = 0
    /\ (probe.kind = "rotate" /\ probe.angle = 0)
          => NearPosition(probe.pos, probe.base, probe.pivot)

\* C18's case: a closed door's point whose x comes back from the pivot
\* changed by the rounding, while its y comes back unchanged.
C18_Witness ==
    /\ probe.kind = "point" /\ IsDoor(probe.part) /\ probe.openVal = 0
    /\ probe.pos.x # probe.base.x
    /\ probe.pos.y = probe.base.y

\* C19: at morph 0 every glass point is rendered at full scale, at its base
\* position, and no balloon or string point is rendered; at morph 1 every
\* balloon and string point is rendered at full scale and no glass point is
\* rendered.
C19_MorphEnds ==
    (probe.kind = "point" /\ probe.morph \in {0, One}) =>
        LET shown == IF probe.morph = 0 THEN {"glass"}
                     ELSE {"balloon", "string"}
        IN  /\ probe.part \in shown =>
                  /\ probe.rendered
                  /\ probe.scaleMult = One
                  /\ SamePosition(probe.morphed, probe.base)
            /\ (Morphs(probe.part) /\ probe.part \notin shown) =>
                  ~probe.rendered
            /\ ~Morphs(probe.part) => probe.rendered

\* C19's case: a balloon point away from the centre rendered at morph 1.
C19_Witness ==
    /\ probe.kind = "point" /\ probe.part = "balloon" /\ probe.morph = One
    /\ probe.rendered
    /\ probe.base.x # 0
    /\ SamePosition(probe.morphed, probe.base)

\* C25: a start call that takes effect hands no note to the synthesizer:
\* it returns with the cursor at the audio clock + 0.1 s, score index 0 and
\* exactly one timer pending; the first entry of the score is processed
\* only by a timer-driven run of the scheduler.
C25_StartHandsNoNote ==
    /\ (/\ lastCall.op \in Toggles
         /\ lastCall.arg
         /\ lastCall.running = "none"
         /\ lastCall.error = "none")
          => /\ processed = << >>
             /\ oscillators = << >>
             /\ handed = 0
             /\ count = 0
             /\ nextNoteTime = currentTime + UnitsPerSecond \div 10
             /\ scoreIndex = 0
             /\ Cardinality(timers) = 1
    /\ \A i \in 1..Len(processed) :
           processed[i].k = 0 =>
               lastCall.op \in {"treeScheduler", "castleScheduler"}

\* C25's case: the bell music started again, later than at clock 0.
C25_Witness ==
    /\ lastCall.op = "toggleChristmasMusic"
    /\ lastCall.arg
    /\ lastCall.running = "none"
    /\ currentTime > 0
    /\ Cardinality(timers) = 1

\* C27: whenever a scheduler is running, and whenever its callback reads
\* the shared scoreIndex, the index is a valid index of that scheduler's own
\* score.
C27_IndexValid ==
    /\ Running = "tree" => scoreIndex \in 0..(Len(JINGLE_BELLS) - 1)
    /\ Running = "castle" => scoreIndex \in 0..(Len(DISNEY_THEME) - 1)
    /\ lastCall.op = "treeScheduler" =>
           lastCall.index \in 0..(Len(JINGLE_BELLS) - 1)
    /\ lastCall.op = "castleScheduler" =>
           lastCall.index \in 0..(Len(DISNEY_THEME) - 1)
    /\ \A i \in 1..Len(processed) :
           processed[i].index \in 0..(Len(Score(processed[i].type)) - 1)

\* C27's case: the bell music started when the shared index, left by the
\* castle music, was beyond the end of the bell score.
C27_Witness ==
    /\ lastCall.op = "toggleChristmasMusic"
    /\ lastCall.arg
    /\ lastCall.running = "none"
    /\ lastCall.index >= Len(JINGLE_BELLS)
    /\ Running = "tree"
    /\ scoreIndex = 0

\* C26: on the tree / car page the bell-music scheduler is running only
\* while isLightsOn is true.
C26_MusicOnlyWhileLightsOn == musicScheduler # NullHandle => appIsLightsOn

\* The particles of `pool` one frame later: each with its life less by 0.02,
\* those left with no life gone.
LeftAfterFrame(pool) ==
    LET kept == {k \in 1..Len(pool) : pool[k].life > LifeStep}
        nth(i) == CHOOSE k \in kept : Cardinality({m \in kept : m < k}) = i - 1
    IN  [i \in 1..Cardinality(kept) |->
            [pool[nth(i)] EXCEPT !.life = pool[nth(i)].life - LifeStep]]

\* C21: after every frame each particle in the pool has life in (0, 1]; a
\* particle is created only in a frame rendered with lights on, with life
\* 1.0; every frame decrements each particle's life by 0.02 and removes
\* every particle whose life is then <= 0.
C21_ParticleLife ==
    /\ [](\A k \in 1..Len(particlesRef) :
             particlesRef[k].life > 0 /\ particlesRef[k].life <= 100)
    /\ [](lastFrame.spawned => lastFrame.lights)
    /\ [][timeRef' = timeRef + 1 =>
             particlesRef' =
                 LeftAfterFrame(IF lastFrame'.spawned
                                THEN Append(particlesRef,
                                            [type |-> "exhaust", life |-> 100])
                                ELSE particlesRef)]_vars

\* C21's case: a frame that spawned a particle and removed an old one.
C21_Witness ==
    /\ lastFrame.spawned
    /\ lastFrame.removed > 0
    /\ Len(particlesRef) > 1

\* C28: a frame rendered with the lights off spawns no particle, and once
\* 50 frames in a row have been rendered with the lights off the pool is
\* empty, and stays empty while the lights are off.
C28_PoolEmptiesInDark ==
    /\ (lastCall.op = "render" /\ ~lastFrame.lights) => ~lastFrame.spawned
    /\ (~isLightsOn /\ lastFrame.dark >= 50) => particlesRef = << >>

\* C28's case: the last particle left from the lights-on frames is removed
\* by the 49th frame rendered with the lights off.
C28_Witness ==
    /\ ~isLightsOn
    /\ lastFrame.dark = 49
    /\ lastFrame.removed > 0
    /\ particlesRef = << >>

\* C23: the items of a frame (car points and particles) are drawn back to
\* front: of any two items drawn, the one farther from the camera (greater
\* depth = 1000 - z) is drawn before the nearer one.
C23_BackToFront ==
    \A i, k \in 1..Len(lastFrame.drawn) :
        (1000 - lastFrame.drawn[i].z > 1000 - lastFrame.drawn[k].z) => i < k

\* C23's case: a particle, last in the render list, is drawn first, before
\* a nearer car point, while an item too near the camera is not drawn.
C23_Witness ==
    /\ Len(lastFrame.drawn) > 2
    /\ lastFrame.drawn[1].type = "heart"
    /\ \E i \in 1..Len(lastFrame.drawn) :
           /\ lastFrame.drawn[i].type = "point"
           /\ lastFrame.drawn[i].z > lastFrame.drawn[1].z
    /\ Len(lastFrame.drawn) < Len(CloudParts) + Len(particlesRef)

\* The least and the greatest number of a set of numbers.
Least(S) == CHOOSE m \in S : \A n \in S : m <= n

Greatest(S) == CHOOSE m \in S : \A n \in S : m >= n

\* The box around the screen positions pos[i], i in I: the inverted
\* sentinels when I is empty.
BoxAround(pos, I) ==
    IF I = {} THEN [minX |-> 10000, maxX |-> -10000,
                    minY |-> 10000, maxY |-> -10000]
    ELSE [minX |-> Least({pos[i][1] : i \in I}),
          maxX |-> Greatest({pos[i][1] : i \in I}),
          minY |-> Least({pos[i][2] : i \in I}),
          maxY |-> Greatest({pos[i][2] : i \in I})]

\* The three boxes of a completed frame whose points were projected to pos;
\* before the first frame, the sentinels.
CompleteBounds(pos) ==
    [leftDoor |-> BoxAround(pos, {i \in DOMAIN pos : CloudParts[i] = "door_left"}),
     rightDoor |-> BoxAround(pos, {i \in DOMAIN pos : CloudParts[i] = "door_right"}),
     car |-> BoxAround(pos, DOMAIN pos)]

\* C22: between frames the three boxes are those of the last completed
\* frame alone, or the initial sentinels before the first frame; what a click
\* hits is what the boxes of that frame give, and the sentinels match no
\* click.
C22_ClickSeesCompleteBounds ==
    /\ boundsRef = CompleteBounds(lastFrame.pos)
    /\ lastCall.op = "click" =>
          /\ lastClick.inLeft =
                 InBox(lastClick.x, lastClick.y,
                       CompleteBounds(lastFrame.pos).leftDoor, HitMargin)
          /\ lastClick.inRight =
                 InBox(lastClick.x, lastClick.y,
                       CompleteBounds(lastFrame.pos).rightDoor, HitMargin)
          /\ lastClick.inCar =
                 (/\ ~lastClick.inLeft
                  /\ ~lastClick.inRight
                  /\ InBox(lastClick.x, lastClick.y,
                           CompleteBounds(lastFrame.pos).car, 0))
          /\ lastFrame.pos = << >> =>
                ~lastClick.inLeft /\ ~lastClick.inRight /\ ~lastClick.inCar

\* C22's case: a click right after the second frame, in which the doors lay
\* apart, on the left door's box of that frame.
C22_Witness ==
    /\ timeRef >= 2
    /\ lastCall.op = "click"
    /\ boundsRef.leftDoor.maxX < boundsRef.rightDoor.minX
    /\ lastClick.inLeft

C29_BackFirst ==
    \A a, b \in 1..Len(activePoints) :
        scaleFactor(activePoints[a]) < scaleFactor(activePoints[b]) => a < b

====
